---- MODULE Spec2Model ----
(***************************************************************************)
(* Model of og_transport/fix_logger_comprehensive.py: a batch patcher that *)
(* walks the directory 'working', reads every *.ps1 / *.psm1 file, applies *)
(* five literal str.replace rules and rewrites the file when the text      *)
(* changed.  Texts and file names are sequences of one-character strings;  *)
(* "CR" and "LF" stand for the carriage-return and line-feed characters.   *)
(***************************************************************************)
EXTENDS Integers, Sequences, FiniteSets, TLC

VARIABLES
    dirs,        \* file system: directory -> "ok" | "unlistable" | "missing"
    disk,        \* file system: path -> characters stored in the file
    linesep,     \* os.linesep of the platform the script runs on
    pc,          \* position of the script
    todo,        \* (root, file) pairs os.walk has still to yield
    filepath,    \* local 'filepath'
    content,     \* local 'content'
    original,    \* local 'original'
    new_content, \* local 'new_content'
    files_fixed, \* local 'files_fixed'
    output,      \* lines printed by the current run
    run,         \* number of the current invocation of the script
    disk0,       \* history: disk when the current run started
    openedR,     \* history: paths open(..., 'r') was called on in this run
    openedW,     \* history: paths open(..., 'w') was called on in this run
    written,     \* history: paths f.write was called on in this run
    counted,     \* history: paths for which files_fixed was incremented in this run
    failed,      \* history: paths whose processing raised in this run
    rewritten,   \* history: paths rewritten without error by an earlier run
    prevClean,   \* history: the previous run had no per-file failure
    once,        \* rule pipeline: buffer of the first pass
    twice,       \* rule pipeline: buffer of the second pass
    alt,         \* rule pipeline: buffer of a pass in another rule order
    altDone      \* rule pipeline: rules the other-order pass has applied

vars == <<dirs, disk, linesep, pc, todo, filepath, content, original, new_content,
          files_fixed, output, run, disk0, openedR, openedW, written, counted,
          failed, rewritten, prevClean, once, twice, alt, altDone>>

fsVars == <<dirs, linesep>>
localVars == <<filepath, content, original, new_content>>
histVars == <<run, disk0, rewritten, prevClean>>
pipeVars == <<once, twice, alt, altDone>>

----------------------------------------------------------------------------
(* Bounds of the model *)

\* number of files on the disk
NFiles == 2
\* number of invocations of the script
MaxRuns == 2
\* number of fragments an input text of the rule pipeline is built from
MaxChunks == 3

----------------------------------------------------------------------------
(* The literals of the script *)

\* '[Logger]$_logger' -> '[object]$_logger'
Rule1 == [old |-> <<"[","L","o","g","g","e","r","]","$","_","l","o","g","g","e","r">>,
          new |-> <<"[","o","b","j","e","c","t","]","$","_","l","o","g","g","e","r">>]
\* a replacement that drops the space and keeps the type
Rule2KeepsType ==
    [old |-> <<"[","L","o","g","g","e","r","]"," ","$","_","l","o","g","g","e","r">>,
     new |-> <<"[","L","o","g","g","e","r","]","$","_","l","o","g","g","e","r">>]

\* '[Logger] $_logger' -> '[object] $_logger'
Rule2 == [old |-> <<"[","L","o","g","g","e","r","]"," ","$","_","l","o","g","g","e","r">>,
          new |-> <<"[","o","b","j","e","c","t","]"," ","$","_","l","o","g","g","e","r">>]
\* '([Logger]$logger)' -> '([object]$logger)'
Rule3 == [old |-> <<"(","[","L","o","g","g","e","r","]","$","l","o","g","g","e","r",")">>,
          new |-> <<"(","[","o","b","j","e","c","t","]","$","l","o","g","g","e","r",")">>]
\* '([Logger] $logger)' -> '([object] $logger)'
Rule4 == [old |-> <<"(","[","L","o","g","g","e","r","]"," ","$","l","o","g","g","e","r",")">>,
          new |-> <<"(","[","o","b","j","e","c","t","]"," ","$","l","o","g","g","e","r",")">>]
\* a replacement of the qualified name by the short name
Rule5ShortName ==
    [old |-> <<"[","S","p","e","e","d","T","U","I",".","C","o","r","e",".",
               "L","o","g","g","e","r","]">>,
     new |-> <<"[","L","o","g","g","e","r","]">>]

\* '[SpeedTUI.Core.Logger]' -> '[object]'
Rule5 == [old |-> <<"[","S","p","e","e","d","T","U","I",".","C","o","r","e",".",
                    "L","o","g","g","e","r","]">>,
          new |-> <<"[","o","b","j","e","c","t","]">>]

\* the five replacements, in the order the script applies them
Rules == <<Rule1, Rule2, Rule3, Rule4, Rule5>>

RuleIds == 1..Len(Rules)

ExtPs1 == <<".","p","s","1">>
ExtPsm1 == <<".","p","s","m","1">>

\* the argument of the call at the bottom of the script
Directory == "working"

----------------------------------------------------------------------------
(* str methods *)

\* s.endswith(p)
EndsWith(s, p) == Len(s) >= Len(p) /\ SubSeq(s, Len(s) - Len(p) + 1, Len(s)) = p

\* s.replace(old, new, 1): the first occurrence only
ReplaceFirst(s, old, new) ==
    LET R[t \in Seq(STRING)] ==
            IF Len(t) < Len(old) THEN t
            ELSE IF SubSeq(t, 1, Len(old)) = old
                 THEN new \o SubSeq(t, Len(old) + 1, Len(t))
                 ELSE <<Head(t)>> \o R[Tail(t)]
    IN  R[s]

\* s.replace(old, new) for a non-empty old: every non-overlapping occurrence,
\* found scanning from the left.  R is a function of the rest of the text, so
\* that TLC evaluates the rest once at each position
Replace(s, old, new) ==
    LET R[t \in Seq(STRING)] ==
            IF Len(t) < Len(old) THEN t
            ELSE IF SubSeq(t, 1, Len(old)) = old
                 THEN new \o R[SubSeq(t, Len(old) + 1, Len(t))]
                 ELSE <<Head(t)>> \o R[Tail(t)]
    IN  R[s]

\* the chain of five replace calls
RECURSIVE ApplyFrom(_, _)
ApplyFrom(s, k) ==
    IF k > Len(Rules) THEN s
    ELSE ApplyFrom(Replace(s, Rules[k].old, Rules[k].new), k + 1)

Apply(s) == ApplyFrom(s, 1)

\* old in s
Contains(s, old) == \E i \in 1..(Len(s) - Len(old) + 1) : SubSeq(s, i, i + Len(old) - 1) = old

----------------------------------------------------------------------------
(* Text-mode file objects: open(..., encoding='utf-8') with the default newline=None *)

\* f.read(): universal newlines, '\r\n' and '\r' both come back as '\n'
RECURSIVE ReadText(_)
ReadText(b) ==
    IF b = <<>> THEN <<>>
    ELSE IF Head(b) = "CR"
         THEN IF Len(b) >= 2 /\ b[2] = "LF"
              THEN <<"LF">> \o ReadText(SubSeq(b, 3, Len(b)))
              ELSE <<"LF">> \o ReadText(Tail(b))
         ELSE <<Head(b)>> \o ReadText(Tail(b))

\* f.write(): every '\n' is stored as os.linesep
RECURSIVE WriteText(_, _)
WriteText(t, sep) ==
    IF t = <<>> THEN <<>>
    ELSE (IF Head(t) = "LF" THEN sep ELSE <<Head(t)>>) \o WriteText(Tail(t), sep)

\* what a write that raises can leave behind in the file open(..., 'w') truncated:
\* nothing, half of the data or all but the last character
PartialWrites(b) == { SubSeq(b, 1, n) : n \in {0, Len(b) \div 2, Len(b) - 1} }

----------------------------------------------------------------------------
(* The file system the script is run on *)

\* files a tree is populated from: name and stored characters
Samples == <<
    \* hidden [Logger]$_logger
    [name |-> <<"A",".","p","s","1">>,
     text |-> <<"h","i","d","d","e","n"," ","[","L","o","g","g","e","r","]",
                "$","_","l","o","g","g","e","r">>],
    \* F([Logger] $logger){} on a line of its own, with CR LF line ends
    [name |-> <<"B",".","p","s","m","1">>,
     text |-> <<"F","(","[","L","o","g","g","e","r","]"," ","$","l","o","g","g","e","r",")",
                "{","}","CR","LF">>],
    \* a text file holding a pattern
    [name |-> <<"C",".","t","x","t">>,
     text |-> <<"[","L","o","g","g","e","r","]","$","_","l","o","g","g","e","r">>],
    \* the qualified name, twice
    [name |-> <<"D",".","p","s","1">>,
     text |-> <<"[","S","p","e","e","d","T","U","I",".","C","o","r","e",".",
                "L","o","g","g","e","r","]","$","_","l","o","g","g","e","r",";",
                "[","S","p","e","e","d","T","U","I",".","C","o","r","e",".",
                "L","o","g","g","e","r","]","$","b">>],
    \* no pattern: a carriage return splits the only candidate
    [name |-> <<"E",".","p","s","1">>,
     text |-> <<"[","L","o","g","g","e","r","]","CR","$","_","l","o","g","g","e","r">>],
    \* an upper-case extension
    [name |-> <<"G",".","P","S","1">>,
     text |-> <<"[","L","o","g","g","e","r","]"," ","$","_","l","o","g","g","e","r">>] >>

\* the stored characters of the sample of a name (sample names are distinct)
SampleText(name) == Samples[CHOOSE i \in 1..Len(Samples) : Samples[i].name = name].text

SubDirectory == "working/sub"
Elsewhere == "elsewhere"

\* the directories os.walk descends into from a directory
SubDirs(d) == IF d = Directory THEN <<SubDirectory>> ELSE <<>>

NoPath == [dir |-> "", name |-> <<>>]

\* os.path.join(root, file)
Join(root, file) == [dir |-> root, name |-> file]

Exists(fs, p) == p \in DOMAIN fs

\* the file names os.scandir yields for a directory, in the order of Samples
ListDir(fs, d) ==
    LET names == [i \in 1..Len(Samples) |-> Samples[i].name]
    IN  SelectSeq(names, LAMBDA n : Exists(fs, Join(d, n)))

\* flattening of a sequence of sequences
RECURSIVE Flatten(_)
Flatten(ss) == IF ss = <<>> THEN <<>> ELSE Head(ss) \o Flatten(Tail(ss))

\* the (root, file) pairs the two nested for loops run over: os.walk is top-down
\* and, with onerror=None, skips a directory whose listing raises OSError
RECURSIVE Walk(_, _, _)
Walk(ds, fs, d) ==
    IF d \notin DOMAIN ds \/ ds[d] # "ok" THEN <<>>
    ELSE LET files == ListDir(fs, d)
             subs == SubDirs(d)
         IN  [i \in 1..Len(files) |-> [root |-> d, file |-> files[i]]]
             \o Flatten([j \in 1..Len(subs) |-> Walk(ds, fs, subs[j])])

\* file.lower().endswith(...): the filter without regard to case
IsCandidateNoCase(file) ==
    \/ EndsWith(file, ExtPs1)
    \/ EndsWith(file, ExtPsm1)
    \/ EndsWith(file, <<".","P","S","1">>)
    \/ EndsWith(file, <<".","P","S","M","1">>)

\* file.endswith('.ps1') or file.endswith('.psm1')
IsCandidate(file) == EndsWith(file, ExtPs1) \/ EndsWith(file, ExtPsm1)

Line(kind, path, n) == [kind |-> kind, path |-> path, n |-> n]

\* the trees a run starts from: the state of 'working' and of 'working/sub', and
\* whether every file but the first lies in 'working/sub'; without 'working' the
\* files lie in another directory
Layouts ==
    { [root |-> "ok", sub |-> "ok", nested |-> FALSE],
      [root |-> "ok", sub |-> "ok", nested |-> TRUE],
      [root |-> "ok", sub |-> "unlistable", nested |-> TRUE],
      [root |-> "unlistable", sub |-> "ok", nested |-> TRUE],
      [root |-> "missing", sub |-> "missing", nested |-> FALSE] }

----------------------------------------------------------------------------
(* One run of fix_logger_type_mismatch_comprehensive('working') *)

Init ==
    /\ \E S \in SUBSET (1..Len(Samples)) :
       \E layout \in Layouts :
          /\ Cardinality(S) = NFiles
          /\ dirs = [d \in {Directory, SubDirectory, Elsewhere} |->
                        IF d = Elsewhere THEN "ok"
                        ELSE IF d = Directory THEN layout.root ELSE layout.sub]
          /\ LET first == CHOOSE i \in S : \A j \in S : i <= j
                 dirOf(i) == IF layout.root = "missing" THEN Elsewhere
                             ELSE IF layout.nested /\ i # first THEN SubDirectory
                             ELSE Directory
                 paths == { Join(dirOf(i), Samples[i].name) : i \in S }
             IN  disk = [p \in paths |-> SampleText(p.name)]
    /\ linesep \in { <<"LF">>, <<"CR", "LF">> }
    /\ pc = "start"
    /\ todo = <<>>
    /\ filepath = NoPath
    /\ content = <<>>
    /\ original = <<>>
    /\ new_content = <<>>
    /\ files_fixed = 0
    /\ output = <<>>
    /\ run = 1
    /\ disk0 = disk
    /\ openedR = {}
    /\ openedW = {}
    /\ written = {}
    /\ counted = {}
    /\ failed = {}
    /\ rewritten = {}
    /\ prevClean = FALSE
    /\ once = <<>>
    /\ twice = <<>>
    /\ alt = <<>>
    /\ altDone = {}

\* line 5 and the call of os.walk: files_fixed = 0
Start ==
    /\ pc = "start"
    /\ files_fixed' = 0
    /\ todo' = Walk(dirs, disk, Directory)
    /\ pc' = "walk"
    /\ UNCHANGED <<disk, output, openedR, openedW, written, counted, failed>>
    /\ UNCHANGED <<fsVars, localVars, histVars, pipeVars>>

\* lines 7-10: the next file of the walk, the extension filter and the join
ForFile ==
    /\ pc = "walk"
    /\ todo # <<>>
    /\ todo' = Tail(todo)
    /\ IF IsCandidate(Head(todo).file)
       THEN /\ filepath' = Join(Head(todo).root, Head(todo).file)
            /\ pc' = "read"
       ELSE /\ filepath' = filepath
            /\ pc' = "walk"
    /\ UNCHANGED <<disk, content, original, new_content, files_fixed, output,
                   openedR, openedW, written, counted, failed>>
    /\ UNCHANGED <<fsVars, histVars, pipeVars>>

\* lines 12-15: open for reading, read and decode the whole file; the open, the
\* read or the decoding may raise
Read ==
    /\ pc = "read"
    /\ openedR' = openedR \cup {filepath}
    /\ \E ok \in BOOLEAN :
          IF ok
          THEN /\ content' = ReadText(disk[filepath])
               /\ original' = content'
               /\ pc' = "replace"
          ELSE /\ UNCHANGED <<content, original>>
               /\ pc' = "except"
    /\ UNCHANGED <<disk, todo, filepath, new_content, files_fixed, output,
                   openedW, written, counted, failed>>
    /\ UNCHANGED <<fsVars, histVars, pipeVars>>

\* lines 24-30: the five replace calls
Patch ==
    /\ pc = "replace"
    /\ new_content' = Apply(content)
    /\ pc' = "compare"
    /\ UNCHANGED <<disk, todo, filepath, content, original, files_fixed, output,
                   openedR, openedW, written, counted, failed>>
    /\ UNCHANGED <<fsVars, histVars, pipeVars>>

\* a rewrite of every file read, changed or not
CompareAlways ==
    /\ pc = "compare"
    /\ output' = Append(output, Line("Relaxed", filepath, 0))
    /\ pc' = "open_w"
    /\ UNCHANGED <<disk, todo, files_fixed, openedR, openedW, written, counted, failed>>
    /\ UNCHANGED <<fsVars, localVars, histVars, pipeVars>>

\* lines 32-33: the comparison, and the 'Relaxed' line when the texts differ
Compare ==
    /\ pc = "compare"
    /\ IF new_content # original
       THEN /\ output' = Append(output, Line("Relaxed", filepath, 0))
            /\ pc' = "open_w"
       ELSE /\ output' = output
            /\ pc' = "walk"
    /\ UNCHANGED <<disk, todo, files_fixed, openedR, openedW, written, counted, failed>>
    /\ UNCHANGED <<fsVars, localVars, histVars, pipeVars>>

\* line 34: open for writing, which truncates the file, or raises
OpenWrite ==
    /\ pc = "open_w"
    /\ openedW' = openedW \cup {filepath}
    /\ \E ok \in BOOLEAN :
          IF ok
          THEN /\ disk' = [disk EXCEPT ![filepath] = <<>>]
               /\ pc' = "write"
          ELSE /\ disk' = disk
               /\ pc' = "except"
    /\ UNCHANGED <<todo, files_fixed, output, openedR, written, counted, failed>>
    /\ UNCHANGED <<fsVars, localVars, histVars, pipeVars>>

\* lines 35-36: write and close the file, then count it; a write or a flush that
\* raises leaves part of the data in the file
Write ==
    /\ pc = "write"
    /\ written' = written \cup {filepath}
    /\ \/ /\ disk' = [disk EXCEPT ![filepath] = WriteText(new_content, linesep)]
          /\ files_fixed' = files_fixed + 1
          /\ counted' = counted \cup {filepath}
          /\ pc' = "walk"
       \/ /\ \E part \in PartialWrites(WriteText(new_content, linesep)) :
                disk' = [disk EXCEPT ![filepath] = part]
          /\ UNCHANGED <<files_fixed, counted>>
          /\ pc' = "except"
    /\ UNCHANGED <<todo, output, openedR, openedW, failed>>
    /\ UNCHANGED <<fsVars, localVars, histVars, pipeVars>>

\* no handler: the exception leaves the function
ExceptPropagates ==
    /\ pc = "except"
    /\ failed' = failed \cup {filepath}
    /\ pc' = "raised"
    /\ UNCHANGED <<disk, todo, files_fixed, output, openedR, openedW, written, counted>>
    /\ UNCHANGED <<fsVars, localVars, histVars, pipeVars>>

\* lines 38-39: except Exception, the 'Failed to process' line
Except ==
    /\ pc = "except"
    /\ output' = Append(output, Line("Failed", filepath, 0))
    /\ failed' = failed \cup {filepath}
    /\ pc' = "walk"
    /\ UNCHANGED <<disk, todo, files_fixed, openedR, openedW, written, counted>>
    /\ UNCHANGED <<fsVars, localVars, histVars, pipeVars>>

\* line 41: the walk is exhausted, print the total
PrintTotal ==
    /\ pc = "walk"
    /\ todo = <<>>
    /\ output' = Append(output, Line("Total", NoPath, files_fixed))
    /\ pc' = "done"
    /\ UNCHANGED <<disk, todo, files_fixed, openedR, openedW, written, counted, failed>>
    /\ UNCHANGED <<fsVars, localVars, histVars, pipeVars>>

\* the script is run again on the tree the last run left
Rerun ==
    /\ pc = "done"
    /\ run < MaxRuns
    /\ run' = run + 1
    /\ disk0' = disk
    /\ rewritten' = rewritten \cup counted
    /\ prevClean' = (failed = {})
    /\ pc' = "start"
    /\ todo' = <<>>
    /\ filepath' = NoPath
    /\ content' = <<>>
    /\ original' = <<>>
    /\ new_content' = <<>>
    /\ files_fixed' = 0
    /\ output' = <<>>
    /\ openedR' = {}
    /\ openedW' = {}
    /\ written' = {}
    /\ counted' = {}
    /\ failed' = {}
    /\ UNCHANGED <<disk, fsVars, pipeVars>>

\* the steps of one run
RunNext ==
    \/ Start
    \/ ForFile
    \/ Read
    \/ Patch
    \/ Compare
    \/ OpenWrite
    \/ Write
    \/ Except
    \/ PrintTotal

Next ==
    \/ RunNext
    \/ Rerun

Spec == Init /\ [][Next]_vars

\* one run: the interpreter always takes the next step of a running script, and
\* every call into the file system returns or raises
FairSpec == Init /\ [][RunNext]_vars /\ WF_vars(RunNext)

----------------------------------------------------------------------------
(* The rule pipeline on its own: the five replace calls applied to a text,   *)
(* applied again to the result, and the same five rules applied in any order *)

\* fragments the input texts are built from: pieces of the five patterns
Chunks ==
    { <<"[","L","o","g","g","e","r","]">>,
      <<"[","L","o","g","g","e","r","]"," ">>,
      <<"$","_","l","o","g","g","e","r">>,
      <<"$","l","o","g","g","e","r",")">>,
      <<"(">>,
      <<"[","S","p","e","e","d","T","U","I",".","C","o","r","e",".","L","o","g","g","e","r","]">>,
      <<"[","S","p","e","e","d","T","U","I",".","C","o","r","e",".">>,
      <<"L","o","g","g","e","r","]">> }

\* the texts made of at most n fragments
RECURSIVE Texts(_)
Texts(n) ==
    IF n = 0 THEN { <<>> }
    ELSE LET T == Texts(n - 1) IN T \cup { t \o c : t \in T, c \in Chunks }

PipeInit ==
    /\ content \in Texts(MaxChunks)
    /\ pc = "pass1"
    /\ once = <<>>
    /\ twice = <<>>
    /\ alt = content
    /\ altDone = {}
    /\ dirs = [d \in {Directory} |-> "ok"]
    /\ disk = <<>>
    /\ linesep = <<"LF">>
    /\ todo = <<>>
    /\ filepath = NoPath
    /\ original = <<>>
    /\ new_content = <<>>
    /\ files_fixed = 0
    /\ output = <<>>
    /\ run = 1
    /\ disk0 = <<>>
    /\ openedR = {}
    /\ openedW = {}
    /\ written = {}
    /\ counted = {}
    /\ failed = {}
    /\ rewritten = {}
    /\ prevClean = FALSE

pipeFrame ==
    UNCHANGED <<dirs, disk, linesep, todo, filepath, content, original, new_content,
                files_fixed, output, run, disk0, openedR, openedW, written, counted,
                failed, rewritten, prevClean>>

\* lines 24-30 on a text
FirstPass ==
    /\ pc = "pass1"
    /\ once' = Apply(content)
    /\ pc' = "pass2"
    /\ UNCHANGED <<twice, alt, altDone>>
    /\ pipeFrame

\* lines 24-30 on the result of lines 24-30
SecondPass ==
    /\ pc = "pass2"
    /\ twice' = Apply(once)
    /\ pc' = "other"
    /\ UNCHANGED <<once, alt, altDone>>
    /\ pipeFrame

\* one replace call of lines 24-30, the rules taken in any order
OtherOrder ==
    /\ pc = "other"
    /\ \E r \in RuleIds \ altDone :
          /\ alt' = Replace(alt, Rules[r].old, Rules[r].new)
          /\ altDone' = altDone \cup {r}
    /\ UNCHANGED <<pc, once, twice>>
    /\ pipeFrame

PipeNext ==
    \/ FirstPass
    \/ SecondPass
    \/ OtherOrder

PipeSpec == PipeInit /\ [][PipeNext]_vars

----------------------------------------------------------------------------
(* Properties of the rule pipeline, checked under PipeSpec *)

\* some left-hand side of the five rules occurs in s
HasPattern(s) == \E r \in RuleIds : Contains(s, Rules[r].old)

\* p occurs at the start of s
StartsWith(s, p) == Len(s) >= Len(p) /\ SubSeq(s, 1, Len(p)) = p

\* the text in which every occurrence of a left-hand side, found scanning from
\* the left, is replaced by the right-hand side of its own rule
RECURSIVE SubstAll(_)
SubstAll(s) ==
    IF s = <<>> THEN <<>>
    ELSE IF \E r \in RuleIds : StartsWith(s, Rules[r].old)
         THEN LET r == CHOOSE q \in RuleIds : StartsWith(s, Rules[q].old)
              IN  Rules[r].new \o SubstAll(SubSeq(s, Len(Rules[r].old) + 1, Len(s)))
         ELSE <<Head(s)>> \o SubstAll(Tail(s))

\* C1: the five replacements applied to apply(C) give apply(C) again, and apply(C)
\* holds no occurrence of any of the five left-hand sides
C1_Idempotent ==
    /\ pc \in {"pass2", "other"} => ~HasPattern(once)
    /\ pc = "other" => twice = once

\* a text with two different patterns has gone through both passes
C1_Witness ==
    /\ pc = "other"
    /\ Contains(content, Rule2.old)
    /\ Contains(content, Rule5.old)
    /\ once # content

\* C10: the listed order replaces every occurrence of a pattern by the replacement
\* of its own rule, leaves no left-hand side, and gives the text every other
\* order of the five rules gives
C10_OrderFree ==
    /\ pc \in {"pass2", "other"} => once = SubstAll(content) /\ ~HasPattern(once)
    /\ pc = "other" /\ altDone = RuleIds => alt = once

\* the rules were applied in some order to a text holding '[Logger] $_logger'
\* and the qualified name
C10_Witness ==
    /\ pc = "other"
    /\ altDone = RuleIds
    /\ Contains(content, Rule2.old)
    /\ Contains(content, Rule5.old)
    /\ Contains(alt, Rule2.new)

----------------------------------------------------------------------------
(* Properties of a run, checked under Spec and FairSpec *)

\* the name ends in '.ps1' or in '.psm1'
HasScriptExtension(name) ==
    \E k \in 1..Len(name) :
        SubSeq(name, k, Len(name)) \in { <<".","p","s","1">>, <<".","p","s","m","1">> }

\* the walk from 'working' reaches the directory of the path
Reachable(p) ==
    /\ dirs[Directory] = "ok"
    /\ \/ p.dir = Directory
       \/ p.dir = SubDirectory /\ dirs[SubDirectory] = "ok"

\* the positions of the lines of a kind printed for a path
LinesFor(p, kind) == { i \in 1..Len(output) : output[i].kind = kind /\ output[i].path = p }

LinesOf(kind) == { i \in 1..Len(output) : output[i].kind = kind }

\* the run is over and its last line is the total
Finished == pc = "done" /\ output # <<>> /\ output[Len(output)].kind = "Total"

\* the candidate files whose content differs from the content at the start of the run
ChangedFiles == { p \in DOMAIN disk : HasScriptExtension(p.name) /\ disk[p] # disk0[p] }

\* the loop has left the file behind
Processed(p) == p \in openedR /\ (p # filepath \/ pc \in {"walk", "done"})

\* the five rules change the text read from the file the run started with
Differs(p) == Apply(ReadText(disk0[p])) # ReadText(disk0[p])

\* C2: at the end of a run the printed total is the number of candidate files whose
\* content on disk differs from their content before the run
C2_CountIsChanged ==
    pc = "done" => Finished /\ output[Len(output)].n = Cardinality(ChangedFiles)

\* C3: a failure on a file gets its 'Failed to process' line and the run goes on:
\* it ends with the total, every reachable candidate file having been opened
C3_FailureIsolation ==
    /\ [](pc = "except" => <>(pc = "walk" /\ LinesFor(filepath, "Failed") # {}))
    /\ <>(/\ Finished
          /\ \A p \in DOMAIN disk :
                HasScriptExtension(p.name) /\ Reachable(p) => p \in openedR)

\* a run that failed on its first candidate file and rewrote another one after it
C3_Witness ==
    /\ Finished
    /\ Len(output) >= 3
    /\ output[1].kind = "Failed"
    /\ output[2].kind = "Relaxed"
    /\ output[2].path # output[1].path
    /\ output[2].path \in counted

\* C4 as stated: without a listable root the run does not finish normally, and no
\* file is modified
C4_FatalOnMissingRoot ==
    dirs[Directory] # "ok" => pc # "done" /\ disk = disk0

\* C5: a file without the '.ps1' or '.psm1' ending is never opened and keeps its
\* content, and the run creates and deletes no file
C5_SelectiveTargeting ==
    /\ DOMAIN disk = DOMAIN disk0
    /\ \A p \in DOMAIN disk0 :
          ~HasScriptExtension(p.name) =>
              /\ p \notin (openedR \cup openedW \cup written)
              /\ disk[p] = disk0[p]

\* a run is over that walked past a file of another ending that holds a pattern,
\* and rewrote a candidate file
C5_Witness ==
    /\ pc = "done"
    /\ counted # {}
    /\ \E p \in DOMAIN disk :
          ~HasScriptExtension(p.name) /\ Reachable(p) /\ HasPattern(disk[p])

\* C6 as stated: a candidate file without a pattern gets no open for writing, no
\* write, no line and no count, and a file is written exactly when the rules
\* changed the text
C6_NoLineNoWrite ==
    /\ \A p \in DOMAIN disk0 :
          HasScriptExtension(p.name) /\ ~HasPattern(disk0[p]) =>
              /\ p \notin (openedW \cup written \cup counted)
              /\ \A i \in 1..Len(output) : output[i].path # p
    /\ \A p \in DOMAIN disk0 :
          HasScriptExtension(p.name) /\ Processed(p) => (p \in written <=> Differs(p))

\* C6: a candidate file without a pattern gets no open for writing, no write, no
\* 'Relaxed' line and no count; a file is opened for writing exactly when it was
\* read without error and the rules changed the text, and written exactly when
\* that open succeeded (the text comparison is made for the file the loop is at,
\* its record does not change once the loop has left it)
C6_NoSpuriousWrites ==
    /\ \A p \in DOMAIN disk0 :
          HasScriptExtension(p.name) /\ ~HasPattern(disk0[p]) =>
              /\ p \notin (openedW \cup written \cup counted)
              /\ LinesFor(p, "Relaxed") = {}
    /\ written \subseteq openedW
    /\ \A p \in openedW : Processed(p) /\ p \notin written => p \in failed
    /\ filepath \in openedW => Differs(filepath)
    /\ Processed(filepath) /\ filepath \notin openedW /\ filepath \notin failed =>
          ~Differs(filepath)

\* a run is over in which reading a candidate file without a pattern failed and
\* another file was written
C6_Witness ==
    /\ pc = "done"
    /\ written # {}
    /\ \E p \in DOMAIN disk0 :
          /\ HasScriptExtension(p.name) /\ ~HasPattern(disk0[p])
          /\ p \in failed

\* C7: the content of a candidate file is always its content at the start of the run
\* or the fully transformed text
C7_NoPartialWrite ==
    \A p \in DOMAIN disk :
        HasScriptExtension(p.name) => disk[p] \in { disk0[p], Apply(disk0[p]) }

\* C8: a candidate file gets at most one line, 'Relaxed' exactly when it was
\* rewritten and counted, 'Failed' exactly when its processing failed, and the
\* number of 'Relaxed' lines is the final count
C8_OneReport ==
    pc = "done" =>
        /\ \A p \in DOMAIN disk :
              HasScriptExtension(p.name) =>
                  /\ Cardinality(LinesFor(p, "Relaxed") \cup LinesFor(p, "Failed")) <= 1
                  /\ LinesFor(p, "Relaxed") # {} <=> p \in counted
                  /\ LinesFor(p, "Failed") # {} <=> p \in failed
        /\ Cardinality(LinesOf("Relaxed")) = files_fixed

\* C9: a file an earlier run rewrote gets no open for writing, no write, no
\* 'Relaxed' line and no count in a later run, and the run after a run without
\* failure prints a total of 0
C9_RerunFixpoint ==
    /\ \A p \in rewritten :
          /\ p \notin (openedW \cup written \cup counted)
          /\ LinesFor(p, "Relaxed") = {}
    /\ run > 1 /\ prevClean /\ pc = "done" => Finished /\ output[Len(output)].n = 0

\* a second run is over that read a file the first run, free of failures, rewrote
C9_Witness ==
    /\ run > 1
    /\ prevClean
    /\ pc = "done"
    /\ \E p \in rewritten : p \in openedR

====
